---- MODULE Spec2Model ----
(***************************************************************************)
(* A model of the library management system of src/correct.py: the Book   *)
(* records (AbstractBook / Book) and the Library that indexes them by     *)
(* lower-cased title, with its activity log and borrow history.           *)
(*                                                                         *)
(* Python objects are references.  Every Book lives in `heap` under an    *)
(* object id; the books dict of a Library maps a key to an object id, so  *)
(* that the caller's reference and the library's are the same object.     *)
(* A str is a sequence of one-character strings, so that str.lower() is   *)
(* computed character by character.                                       *)
(***************************************************************************)
EXTENDS Integers, Sequences, FiniteSets, TLC

VARIABLES
    heap,   \* object id -> the Book object's fields
    libs,   \* library id -> the Library object's fields
    call,   \* the last call made: its name, arguments and return value
    snap,   \* history variable: the state a successful borrow started from,
            \* kept while the next call is a return_book of the same title
    calls,  \* the number of calls made so far
    ledger, \* history variable: library id -> key -> the copies added, minus
            \* the borrows, plus the returns since the key's entry was
            \* inserted, and whether set_copies reached that entry since
    given   \* history variable of the callers with two libraries: library
            \* id -> the objects add_book of that library was called with

vars == <<heap, libs, call, snap, calls, ledger, given>>

(***************************************************************************)
(* Bound of the model.                                                     *)
(***************************************************************************)
\* the calls of one run: constructors and methods, in any order
MaxCalls == 4

(***************************************************************************)
(* Inputs.                                                                 *)
(***************************************************************************)
\* the titles a call may name: "Du" and "du" share the key "du", "Z9" has "z9"
TitlePool == { <<"D", "u">>, <<"d", "u">>, <<"Z", "9">> }
\* the (title, author, year) arguments a Book is constructed with: two books
\* whose titles differ only in case (with different authors and years), and a
\* third whose author differs from the first's only in case
BookPool ==
    { << <<"D", "u">>, <<"H">>, 1965 >>,
      << <<"d", "u">>, <<"o">>, 1949 >>,
      << <<"Z", "9">>, <<"h">>, 1949 >> }
\* the copies a Book is constructed with: the constructor takes any int
CopiesPool == { -1, 1 }
\* the counts set_copies is called with
CountPool == { -1, 0, 1 }
\* the libraries of a run; Spec drives the first
LibIds == { "main", "branch" }
ActiveLibs == { "main" }

(***************************************************************************)
(* str.lower()                                                             *)
(***************************************************************************)
LowerChar(c) ==
    CASE c = "D" -> "d"
      [] c = "U" -> "u"
      [] c = "H" -> "h"
      [] c = "O" -> "o"
      [] c = "Z" -> "z"
      [] OTHER -> c

Lower(s) == [i \in DOMAIN s |-> LowerChar(s[i])]

(***************************************************************************)
(* Book objects                                                            *)
(***************************************************************************)
\* AbstractBook.__init__ / Book.__init__: the fields are taken as given
NewBook(title, author, year, copies) ==
    [title |-> title, author |-> author, year |-> year, copies |-> copies]

\* the object ids in use
Alive == DOMAIN heap

\* the id a newly constructed object gets
FreshId == Cardinality(Alive) + 1

(***************************************************************************)
(* The books dict: a sequence of <<key, object id>> in insertion order     *)
(***************************************************************************)
Keys(d) == { d[i].key : i \in DOMAIN d }

HasKey(d, k) == k \in Keys(d)

IndexOf(d, k) == CHOOSE i \in DOMAIN d : d[i].key = k

\* dict.get(k): the object id, or 0 for None
Get(d, k) == IF HasKey(d, k) THEN d[IndexOf(d, k)].ref ELSE 0

\* a faulty insertion: the new item goes first
Insert_first(d, k, ref) == <<[key |-> k, ref |-> ref]>> \o d

\* d[k] = ref for a key that is not in d: the item goes last
Insert(d, k, ref) == Append(d, [key |-> k, ref |-> ref])

\* del d[k]
Delete(d, k) ==
    LET i == IndexOf(d, k)
    IN  SubSeq(d, 1, i - 1) \o SubSeq(d, i + 1, Len(d))

\* list(d.values())
Values(d) == [i \in DOMAIN d |-> d[i].ref]

\* Library.__init__
NewLibrary(name, address) ==
    [name |-> name, address |-> address, books |-> <<>>, logs |-> <<>>,
     borrow_history |-> <<>>]

\* the return value of a method without a return statement
None == "None"

\* no borrow is being followed
NoSnap == [stage |-> "none"]

\* the keys the titles of the pools have
KeyPool == { Lower(t) : t \in TitlePool }

\* the account of a key that holds no entry
NoAccount == [sum |-> 0, touched |-> FALSE]

Init ==
    /\ heap = <<>>
    /\ libs = [l \in LibIds |-> NewLibrary(l, "addr")]
    /\ call = [op |-> "init"]
    /\ snap = NoSnap
    /\ calls = 0
    /\ ledger = [l \in LibIds |-> [k \in KeyPool |-> NoAccount]]
    /\ given = [l \in LibIds |-> {}]

\* one more call is made
Tick == calls < MaxCalls /\ calls' = calls + 1

\* the caller constructs a Book
Construct(title, author, year, copies) ==
    /\ Tick
    /\ heap' = (FreshId :> NewBook(title, author, year, copies)) @@ heap
    /\ call' = [op |-> "Book", ref |-> FreshId]
    /\ snap' = NoSnap
    /\ UNCHANGED libs

\* f"Added {book.title}"
AddedLine(title) == <<"Added ">> \o title

\* a faulty key: the title as given, not lower-cased
AddKey_as_given(title) == title

\* key = book.title.lower()
AddKey(title) == Lower(title)

\* a faulty merge: "=" for "+=", the stored copies are overwritten
AddBook_overwrite(h, L, b) ==
    LET key == AddKey(h[b].title)
    IN  IF HasKey(L.books, key)
        THEN [heap |-> [h EXCEPT ![Get(L.books, key)].copies = h[b].copies],
              lib  |-> [L EXCEPT !.logs = Append(@, AddedLine(h[b].title))]]
        ELSE [heap |-> h,
              lib  |-> [L EXCEPT !.books = Insert(@, key, b),
                                 !.logs = Append(@, AddedLine(h[b].title))]]

\* a faulty add that never merges: the book goes in as one more item
AddBook_duplicating(h, L, b) ==
    [heap |-> h,
     lib  |-> [L EXCEPT !.books = Insert(@, AddKey(h[b].title), b),
                        !.logs = Append(@, AddedLine(h[b].title))]]

\* a faulty merge that counts the book given as one copy
AddBook_counting(h, L, b) ==
    LET key == AddKey(h[b].title)
    IN  IF HasKey(L.books, key)
        THEN [heap |-> [h EXCEPT ![Get(L.books, key)].copies = @ + 1],
              lib  |-> [L EXCEPT !.logs = Append(@, AddedLine(h[b].title))]]
        ELSE [heap |-> h,
              lib  |-> [L EXCEPT !.books = Insert(@, key, b),
                                 !.logs = Append(@, AddedLine(h[b].title))]]

\* the body of Library.add_book(book) on the heap h and the library L, book
\* being the object b: the heap and the library afterwards
AddBook(h, L, b) ==
    LET key == AddKey(h[b].title)
    IN  IF HasKey(L.books, key)
        THEN [heap |-> [h EXCEPT ![Get(L.books, key)].copies = @ + h[b].copies],
              lib  |-> [L EXCEPT !.logs = Append(@, AddedLine(h[b].title))]]
        ELSE [heap |-> h,
              lib  |-> [L EXCEPT !.books = Insert(@, key, b),
                                 !.logs = Append(@, AddedLine(h[b].title))]]

\* a faulty add_book that keeps the books in one registry for all libraries:
\* the entry goes into every library
add_book_everywhere(l, b) ==
    LET r == AddBook(heap, libs[l], b)
    IN  /\ Tick
        /\ b \in Alive
        /\ heap' = r.heap
        /\ libs' = [x \in LibIds |->
                      IF x = l THEN r.lib ELSE AddBook(heap, libs[x], b).lib]
        /\ call' = [op |-> "add_book", lib |-> l, ref |-> b, ret |-> None]
        /\ snap' = NoSnap

\* Library.add_book(book)
add_book(l, b) ==
    LET r == AddBook(heap, libs[l], b)
    IN  /\ Tick
        /\ b \in Alive
        /\ heap' = r.heap
        /\ libs' = [libs EXCEPT ![l] = r.lib]
        /\ call' = [op |-> "add_book", lib |-> l, ref |-> b, ret |-> None]
        /\ snap' = NoSnap

\* Library.add_book_full(title, author, year, copies): a new Book, then add_book
add_book_full(l, title, author, year, copies) ==
    LET b == FreshId
        r == AddBook((b :> NewBook(title, author, year, copies)) @@ heap, libs[l], b)
    IN  /\ Tick
        /\ heap' = r.heap
        /\ libs' = [libs EXCEPT ![l] = r.lib]
        /\ call' = [op |-> "add_book_full", lib |-> l, ref |-> b, ret |-> None]
        /\ snap' = NoSnap

\* a faulty set_copies that stores any count, the negative ones too
set_copies_unchecked(b, count) ==
    /\ Tick
    /\ b \in Alive
    /\ heap' = [heap EXCEPT ![b].copies = count]
    /\ call' = [op |-> "set_copies", ref |-> b, count |-> count, ret |-> None]
    /\ snap' = NoSnap
    /\ UNCHANGED libs

\* Book.__eq__(other) for two Book objects: the titles, lower-cased, are equal
eq(h, book, other) == Lower(h[book].title) = Lower(h[other].title)

\* a faulty hash that takes the copies in
hash_with_copies(h, book) ==
    <<Lower(h[book].title), h[book].author, h[book].year, h[book].copies>>

\* Book.__hash__(): the tuple that is hashed
hash(h, book) == <<Lower(h[book].title), h[book].author, h[book].year>>

\* Book.set_copies(count) on the object b
set_copies(b, count) ==
    /\ Tick
    /\ b \in Alive
    /\ IF count < 0
       THEN /\ heap' = heap
            /\ call' = [op |-> "set_copies", ref |-> b, count |-> count,
                        ret |-> "ValueError"]
       ELSE /\ heap' = [heap EXCEPT ![b].copies = count]
            /\ call' = [op |-> "set_copies", ref |-> b, count |-> count,
                        ret |-> None]
    /\ snap' = NoSnap
    /\ UNCHANGED libs

\* f"Removed {title}"
RemovedLine(title) == <<"Removed ">> \o title

\* a faulty key: the title as given, not lower-cased
RemoveKey_as_given(title) == title

\* key = title.lower()
RemoveKey(title) == Lower(title)

\* a faulty removal that also drops the title's records from the history
RemoveBook_purging(L, title) ==
    [L EXCEPT !.books = Delete(@, RemoveKey(title)),
              !.logs = Append(@, RemovedLine(title)),
              !.borrow_history =
                  SelectSeq(@, LAMBDA r : Lower(r[1]) # RemoveKey(title))]

\* the found branch of Library.remove_book(title): the library afterwards
RemoveBook(L, title) ==
    [L EXCEPT !.books = Delete(@, RemoveKey(title)),
              !.logs = Append(@, RemovedLine(title))]

\* Library.remove_book(title)
remove_book(l, title) ==
    /\ Tick
    /\ IF HasKey(libs[l].books, RemoveKey(title))
       THEN /\ libs' = [libs EXCEPT ![l] = RemoveBook(@, title)]
            /\ call' = [op |-> "remove_book", lib |-> l, title |-> title,
                        ret |-> TRUE]
       ELSE /\ libs' = libs
            /\ call' = [op |-> "remove_book", lib |-> l, title |-> title,
                        ret |-> FALSE]
    /\ snap' = NoSnap
    /\ UNCHANGED heap

\* a faulty key: the title as given, not lower-cased
FindKey_as_given(title) == title

\* title.lower(), the key find_by_title looks up
FindKey(title) == Lower(title)

\* Library.find_by_title(title): the object id of the Book, or 0 for None
find_by_title(l, title) == Get(libs[l].books, FindKey(title))

\* a faulty length: the number of log lines, one per add, duplicates included
len_of_logs(l) == Len(libs[l].logs)

\* Library.__len__()
len(l) == Len(libs[l].books)

\* a faulty test: "book.copies < 0" lets a borrow through at 0 copies
Available_below_zero(h, book) == ~(book = 0 \/ h[book].copies < 0)

\* the negation of borrow's test "book is None or book.copies <= 0"
Available(h, book) == ~(book = 0 \/ h[book].copies <= 0)

\* a faulty tuple: author and title swapped
HistoryRecord_swapped(h, book) == <<h[book].author, h[book].title, h[book].year>>

\* the tuple borrow appends to the history
HistoryRecord(h, book) == <<h[book].title, h[book].author, h[book].year>>

\* Library.borrow(title)
borrow(l, title) ==
    LET book == find_by_title(l, title)
    IN  /\ Tick
        /\ IF ~Available(heap, book)
           THEN /\ call' = [op |-> "borrow", lib |-> l, title |-> title,
                            ret |-> FALSE]
                /\ snap' = NoSnap
                /\ UNCHANGED <<heap, libs>>
           ELSE /\ heap' = [heap EXCEPT ![book].copies = @ - 1]
                /\ libs' = [libs EXCEPT ![l].borrow_history =
                               Append(@, HistoryRecord(heap, book))]
                /\ call' = [op |-> "borrow", lib |-> l, title |-> title,
                            ret |-> TRUE]
                /\ snap' = [stage |-> "borrowed", lib |-> l, title |-> title,
                            heap |-> heap, books |-> libs[l].books]

\* whether this return_book call comes right after a successful borrow from
\* the same library of the same normalized title
FollowsBorrow(l, title) ==
    /\ snap.stage = "borrowed"
    /\ snap.lib = l
    /\ Lower(snap.title) = Lower(title)

\* a faulty increment: "if book.copies: book.copies += 1" skips a count of 0
Returned_unless_zero(h, book) ==
    IF h[book].copies = 0 THEN h ELSE [h EXCEPT ![book].copies = @ + 1]

\* book.copies += 1
Returned(h, book) == [h EXCEPT ![book].copies = @ + 1]

\* Library.return_book(title)
return_book(l, title) ==
    LET book == find_by_title(l, title)
    IN  /\ Tick
        /\ IF book = 0
           THEN /\ call' = [op |-> "return_book", lib |-> l, title |-> title,
                            ret |-> FALSE]
                /\ UNCHANGED <<heap, libs>>
           ELSE /\ heap' = Returned(heap, book)
                /\ call' = [op |-> "return_book", lib |-> l, title |-> title,
                            ret |-> TRUE]
                /\ UNCHANGED libs
        /\ snap' = IF FollowsBorrow(l, title)
                   THEN [snap EXCEPT !.stage = "returned"]
                   ELSE NoSnap

(***************************************************************************)
(* The queries.  An optional argument is a set: empty for None, and else   *)
(* holding the one value given.                                            *)
(***************************************************************************)
\* the author arguments of search
AuthorPool == { <<"H">>, <<"o">> }

\* the optional author and title arguments of search
AuthorFilters == { {} } \cup { {a} : a \in AuthorPool }

TitleFilters == { {} } \cup { {t} : t \in TitlePool }

\* the index arguments of library[index]
IndexPool == { -3, -2, -1, 0, 1, 2 }

\* a faulty comparison: the strings as they are, upper and lower case apart
Matches_exact(h, book, author, title) ==
    /\ author = {} \/ h[book].author \in author
    /\ title = {} \/ h[book].title \in title

\* matches_author and matches_title
Matches(h, book, author, title) ==
    /\ author = {} \/ \E a \in author : Lower(h[book].author) = Lower(a)
    /\ title = {} \/ \E t \in title : Lower(h[book].title) = Lower(t)

\* for book in self.books.values(): if ...: results.append(book)
RECURSIVE SearchLoop(_, _, _, _)
SearchLoop(h, books, author, title) ==
    IF books = <<>>
    THEN <<>>
    ELSE LET results == SearchLoop(h, Tail(books), author, title)
         IN  IF Matches(h, Head(books), author, title)
             THEN <<Head(books)>> \o results
             ELSE results

\* Library.search(author, title): the object ids of the Books found
search(l, author, title) ==
    IF author = {} /\ title = {}
    THEN Values(libs[l].books)
    ELSE SearchLoop(heap, Values(libs[l].books), author, title)

\* a faulty key: the title as given, not lower-cased
ContainsKey_as_given(title) == title

\* title.lower()
ContainsKey(title) == Lower(title)

\* Library.__contains__(title)
contains(l, title) == HasKey(libs[l].books, ContainsKey(title))

\* a faulty index: only the indices from 0 on are taken
Item_from_zero(books, index) ==
    IF 0 <= index /\ index < Len(books)
    THEN [ret |-> books[index + 1], raised |-> None]
    ELSE [ret |-> 0, raised |-> "IndexError"]

\* list[index]: an index below 0 counts from the end of the list
Item(books, index) ==
    IF 0 <= index /\ index < Len(books)
    THEN [ret |-> books[index + 1], raised |-> None]
    ELSE IF -Len(books) <= index /\ index < 0
         THEN [ret |-> books[Len(books) + index + 1], raised |-> None]
         ELSE [ret |-> 0, raised |-> "IndexError"]

\* Library.__getitem__(index): the object id, or the error raised
getitem(l, index) == Item(Values(libs[l].books), index)

\* Library.__iter__(): the object ids it yields, in order
iter(l) == Values(libs[l].books)

\* Library.get_all_books()
get_all_books(l) == Values(libs[l].books)

\* a faulty getter: the list itself, not a copy of it
get_borrow_history_itself(l) ==
    [shared |-> TRUE, items |-> libs[l].borrow_history]

\* Library.get_borrow_history(): a new list with the records of the history
get_borrow_history(l) ==
    [shared |-> FALSE, items |-> libs[l].borrow_history]

\* the caller's statements on the list it got: append, pop(0), reverse
ListOps == { "append", "pop", "reverse" }

Mutated(kind, items) ==
    CASE kind = "append" -> Append(items, <<<<"Z", "9">>, <<"h">>, 1949>>)
      [] kind = "pop" -> Tail(items)
      [] kind = "reverse" -> [i \in DOMAIN items |-> items[Len(items) + 1 - i]]

\* the calls that ask and do not tell
QueryOps ==
    { "search", "getitem", "contains", "find_by_title", "get_all_books",
      "iter", "get_borrow_history", "list" }

\* the caller asks library.search(author, title)
Query_search(l, author, title) ==
    /\ call' = [op |-> "search", lib |-> l, author |-> author,
                title |-> title, ret |-> search(l, author, title)]
    /\ snap' = NoSnap
    /\ UNCHANGED <<heap, libs, calls>>

\* the caller asks library[index]
Query_getitem(l, index) ==
    LET r == getitem(l, index)
    IN  /\ call' = [op |-> "getitem", lib |-> l, index |-> index,
                    ret |-> r.ret, raised |-> r.raised]
        /\ snap' = NoSnap
        /\ UNCHANGED <<heap, libs, calls>>

\* the caller asks title in library
Query_contains(l, title) ==
    /\ call' = [op |-> "contains", lib |-> l, title |-> title,
                ret |-> contains(l, title), raised |-> None]
    /\ snap' = NoSnap
    /\ UNCHANGED <<heap, libs, calls>>

\* the caller asks library.find_by_title(title)
Query_find_by_title(l, title) ==
    /\ call' = [op |-> "find_by_title", lib |-> l, title |-> title,
                ret |-> find_by_title(l, title), raised |-> None]
    /\ snap' = NoSnap
    /\ UNCHANGED <<heap, libs, calls>>

\* the caller asks library.get_all_books()
Query_get_all_books(l) ==
    /\ call' = [op |-> "get_all_books", lib |-> l, ret |-> get_all_books(l)]
    /\ snap' = NoSnap
    /\ UNCHANGED <<heap, libs, calls>>

\* the caller runs list(library); before is what the iteration just before
\* this one gave, if the last call was one
Query_iter(l) ==
    /\ call' = [op |-> "iter", lib |-> l, ret |-> iter(l),
                before |-> IF call.op = "iter" /\ call.lib = l
                           THEN {call.ret} ELSE {}]
    /\ snap' = NoSnap
    /\ UNCHANGED <<heap, libs, calls>>

\* the caller asks library.get_borrow_history()
Query_get_borrow_history(l) ==
    /\ call' = [op |-> "get_borrow_history", lib |-> l,
                ret |-> get_borrow_history(l)]
    /\ snap' = NoSnap
    /\ UNCHANGED <<heap, libs, calls>>

\* the caller changes the list that get_borrow_history gave it; the history
\* of the library changes with it when that list is the history itself
Caller_changes_list(kind) ==
    /\ call.op = "get_borrow_history"
    /\ kind = "pop" => call.ret.items # <<>>
    /\ LET items == Mutated(kind, call.ret.items)
       IN  /\ call' = [op |-> "list", lib |-> call.lib, kind |-> kind,
                       ret |-> [call.ret EXCEPT !.items = items]]
           /\ libs' = IF call.ret.shared
                      THEN [libs EXCEPT ![call.lib].borrow_history = items]
                      ELSE libs
    /\ snap' = NoSnap
    /\ UNCHANGED <<heap, calls>>

\* the objects a library with the books dict d stores
StoredRefs(d) == { d[i].ref : i \in DOMAIN d }

\* the stored objects whose title, lower-cased, is that of t
EntriesTitled(h, d, t) == { b \in StoredRefs(d) : Lower(h[b].title) = Lower(t) }

\* the ledger after the call that call' records, made in the present state
Account ==
    CASE call'.op \in {"add_book", "add_book_full"} ->
            LET l == call'.lib
                b == call'.ref
                new == IF b \in Alive THEN heap[b] ELSE heap'[b]
                k == Lower(new.title)
            IN  IF EntriesTitled(heap, libs[l].books, new.title) # {}
                THEN [ledger EXCEPT ![l][k].sum = @ + new.copies]
                ELSE [ledger EXCEPT ![l][k] = [sum |-> new.copies,
                                               touched |-> FALSE]]
      [] call'.op = "borrow" /\ call'.ret ->
            [ledger EXCEPT ![call'.lib][Lower(call'.title)].sum = @ - 1]
      [] call'.op = "return_book" /\ call'.ret ->
            [ledger EXCEPT ![call'.lib][Lower(call'.title)].sum = @ + 1]
      [] call'.op = "remove_book" /\ call'.ret ->
            [ledger EXCEPT ![call'.lib][Lower(call'.title)] = NoAccount]
      [] call'.op = "set_copies" /\ call'.ret = None ->
            [l \in LibIds |-> [k \in KeyPool |->
                IF call'.ref \in EntriesTitled(heap, libs[l].books, k)
                THEN [ledger[l][k] EXCEPT !.touched = TRUE]
                ELSE ledger[l][k]]]
      [] OTHER -> ledger

\* the objects given to the libraries, after the call that call' records
Handed ==
    IF call'.op \in {"add_book", "add_book_full"}
    THEN [given EXCEPT ![call'.lib] = @ \cup {call'.ref}]
    ELSE given

\* the ledger follows the call
Audit == ledger' = Account /\ given' = given

\* the ledger and the objects given follow the call
AuditTwo == ledger' = Account /\ given' = Handed

\* one call of the caller
Next ==
    \/ \E k \in BookPool, c \in CopiesPool :
          Construct(k[1], k[2], k[3], c) /\ Audit
    \/ \E l \in ActiveLibs, b \in Alive : add_book(l, b) /\ Audit
    \/ \E l \in ActiveLibs, k \in BookPool, c \in CopiesPool :
          add_book_full(l, k[1], k[2], k[3], c) /\ Audit
    \/ \E b \in Alive, c \in CountPool : set_copies(b, c) /\ Audit
    \/ \E l \in ActiveLibs, t \in TitlePool : remove_book(l, t) /\ Audit
    \/ \E l \in ActiveLibs, t \in TitlePool : borrow(l, t) /\ Audit
    \/ \E l \in ActiveLibs, t \in TitlePool : return_book(l, t) /\ Audit

Spec == Init /\ [][Next]_vars

\* the copies of the entries this caller adds: those the documented
\* invariant copies >= 0 allows
StockPool == { c \in CopiesPool : c >= 0 }

\* one call of a caller that fills a library and then asks
NextQuery ==
    \/ \E l \in ActiveLibs, k \in BookPool, c \in StockPool :
          add_book_full(l, k[1], k[2], k[3], c) /\ Audit
    \/ \E l \in ActiveLibs, t \in TitlePool :
          remove_book(l, t) /\ Audit
    \/ \E l \in ActiveLibs, t \in TitlePool :
          borrow(l, t) /\ Audit
    \/ \E l \in ActiveLibs, t \in TitlePool :
          return_book(l, t) /\ Audit
    \/ \E l \in ActiveLibs, a \in AuthorFilters, t \in TitleFilters :
          Query_search(l, a, t) /\ Audit
    \/ \E l \in ActiveLibs, i \in IndexPool :
          Query_getitem(l, i) /\ Audit
    \/ \E l \in ActiveLibs, t \in TitlePool :
          Query_contains(l, t) /\ Audit
    \/ \E l \in ActiveLibs, t \in TitlePool :
          Query_find_by_title(l, t) /\ Audit
    \/ \E l \in ActiveLibs :
          Query_get_all_books(l) /\ Audit
    \/ \E l \in ActiveLibs :
          Query_iter(l) /\ Audit
    \/ \E l \in ActiveLibs :
          Query_get_borrow_history(l) /\ Audit
    \/ \E kind \in ListOps : Caller_changes_list(kind) /\ Audit

SpecQuery == Init /\ [][NextQuery]_vars

\* the books of the caller with two libraries: one for each key
TwoPool == { k \in BookPool : k[1] \in { <<"D", "u">>, <<"Z", "9">> } }

\* one call of a caller that has two libraries
NextTwo ==
    \/ \E k \in TwoPool, c \in StockPool :
          Construct(k[1], k[2], k[3], c) /\ AuditTwo
    \/ \E l \in LibIds, b \in Alive : add_book(l, b) /\ AuditTwo
    \/ \E l \in LibIds, k \in TwoPool, c \in StockPool :
          add_book_full(l, k[1], k[2], k[3], c) /\ AuditTwo
    \/ \E l \in LibIds, t \in TitlePool : remove_book(l, t) /\ AuditTwo
    \/ \E l \in LibIds, t \in TitlePool : borrow(l, t) /\ AuditTwo
    \/ \E l \in LibIds, t \in TitlePool : return_book(l, t) /\ AuditTwo
    \/ \E l \in LibIds : Query_search(l, {}, {}) /\ AuditTwo

SpecTwo == Init /\ [][NextTwo]_vars

(***************************************************************************)
(* Vocabulary of the properties                                            *)
(***************************************************************************)
\* s is an initial part of t
IsPrefix(s, t) == Len(s) <= Len(t) /\ SubSeq(t, 1, Len(s)) = s

\* d without the item of the object e, the order of the others kept
Without(d, e) == SelectSeq(d, LAMBDA x : x.ref # e)

(***************************************************************************)
(* Properties                                                              *)
(***************************************************************************)

\* C1: every Book object, stored in a library or not, has copies >= 0 in
\* every reachable state.
C1_CopiesNeverNegative == \A b \in Alive : heap[b].copies >= 0

\* C2: a borrow(title) call made when no stored entry has that normalized
\* title, or when the entry's copies <= 0, returns False and leaves every
\* object, the books dict, the borrow history and the log as they were; and
\* no borrow call takes any object's copies from >= 0 to < 0.
C2_BorrowRefusedChangesNothing ==
    [][ /\ \A l \in ActiveLibs, t \in TitlePool :
              ( /\ call'.op = "borrow" /\ call'.lib = l /\ call'.title = t
                /\ \A b \in EntriesTitled(heap, libs[l].books, t) :
                      heap[b].copies <= 0 )
              => (call'.ret = FALSE /\ heap' = heap /\ libs' = libs)
        /\ call'.op = "borrow"
              => \A b \in Alive : heap[b].copies >= 0 => heap'[b].copies >= 0
      ]_vars

\* C2's case: a borrow was just refused for a stored entry with no copies left
C2_Witness ==
    /\ call.op = "borrow"
    /\ call.ret = FALSE
    /\ \E b \in EntriesTitled(heap, libs[call.lib].books, call.title) :
          heap[b].copies = 0

\* C3: a borrow(title) call made when a stored entry has that normalized
\* title and copies > 0 returns True, takes 1 from that entry's copies,
\* appends the entry's (title, author, year) to the end of the history, and
\* changes nothing else: no other object, not the books dict, not the log.
C3_BorrowSucceeds ==
    [][ \A l \in ActiveLibs, t \in TitlePool :
           ( /\ call'.op = "borrow" /\ call'.lib = l /\ call'.title = t
             /\ \E b \in EntriesTitled(heap, libs[l].books, t) :
                   heap[b].copies > 0 )
           => \E b \in EntriesTitled(heap, libs[l].books, t) :
                 /\ call'.ret = TRUE
                 /\ heap' = [heap EXCEPT ![b].copies = heap[b].copies - 1]
                 /\ libs' = [libs EXCEPT ![l].borrow_history =
                               Append(@, <<heap[b].title, heap[b].author,
                                           heap[b].year>>)]
      ]_vars

\* C3's case: "du" was just borrowed and the record of the stored "Du" is
\* the second of the history
C3_Witness ==
    /\ call.op = "borrow"
    /\ call.ret = TRUE
    /\ call.title = <<"d", "u">>
    /\ Len(libs[call.lib].borrow_history) = 2
    /\ libs[call.lib].borrow_history[2] = << <<"D", "u">>, <<"H">>, 1965 >>

\* C4: an add_book or add_book_full call whose entry's lower-cased title is
\* already that of a stored entry holding c1 copies, the new entry having c2,
\* leaves that stored entry as the only one of that normalized title, with
\* copies c1 + c2 and its own title, author and year, at its place in the
\* dict; the number of unique titles is unchanged and the one line
\* "Added <the new entry's title>" is appended to the log.
C4_MergeAddsCopies ==
    [][ \A l \in ActiveLibs :
           (call'.op \in {"add_book", "add_book_full"} /\ call'.lib = l)
           => LET b == call'.ref
                  new == IF b \in Alive THEN heap[b] ELSE heap'[b]
                  old == EntriesTitled(heap, libs[l].books, new.title)
              IN  old # {}
                  => \E e \in old :
                        /\ EntriesTitled(heap', libs'[l].books, new.title) = {e}
                        /\ heap'[e].copies = heap[e].copies + new.copies
                        /\ heap'[e].title = heap[e].title
                        /\ heap'[e].author = heap[e].author
                        /\ heap'[e].year = heap[e].year
                        /\ libs'[l].books = libs[l].books
                        /\ Len(libs'[l].books) = Len(libs[l].books)
                        /\ libs'[l].logs = Append(libs[l].logs, AddedLine(new.title))
      ]_vars

\* C4's case: the Book "du" (o, 1949) with 1 copy was just added to a library
\* holding "Du" (H, 1965) with 1 copy, which now is the only entry, with 2
C4_Witness ==
    /\ call.op = "add_book"
    /\ heap[call.ref] = NewBook(<<"d", "u">>, <<"o">>, 1949, 1)
    /\ Len(libs[call.lib].books) = 1
    /\ heap[libs[call.lib].books[1].ref] = NewBook(<<"D", "u">>, <<"H">>, 1965, 2)
    /\ libs[call.lib].logs = <<AddedLine(<<"D", "u">>), AddedLine(<<"d", "u">>)>>

\* C5 as stated: right after add_book(A), find_by_title of every case variant
\* of A's title returns the object A.  (Read in the states where no object
\* has a negative copies, so that a violation owes nothing to C1.)
C5_FindReturnsAdded ==
    (call.op = "add_book" /\ \A b \in Alive : heap[b].copies >= 0)
    => \A t \in TitlePool :
          Lower(t) = Lower(heap[call.ref].title)
          => find_by_title(call.lib, t) = call.ref

\* C5, amended: right after add_book(A), find_by_title of every case variant
\* of A's title returns A when no entry of that normalized title was stored
\* before the call, and otherwise the entry that was stored before the call.
C5_FindReturnsStored ==
    [][ \A l \in ActiveLibs :
           (call'.op = "add_book" /\ call'.lib = l)
           => LET b == call'.ref
                  old == EntriesTitled(heap, libs[l].books, heap[b].title)
              IN  \A t \in TitlePool :
                     Lower(t) = Lower(heap[b].title)
                     => /\ old = {} => find_by_title(l, t)' = b
                        /\ old # {} => find_by_title(l, t)' \in old
      ]_vars

\* C5's case: the Book "Du" was just added and is found under "du"
C5_Witness ==
    /\ call.op = "add_book"
    /\ heap[call.ref].title = <<"D", "u">>
    /\ find_by_title(call.lib, <<"d", "u">>) = call.ref

\* C6: when a borrow succeeded and the next call is a return_book of the same
\* title that succeeds, every object's copies is what it was before the
\* borrow, and so is the set of keys.
C6_BorrowThenReturnRestores ==
    (snap.stage = "returned" /\ call.op = "return_book" /\ call.ret = TRUE)
    => /\ \A b \in DOMAIN snap.heap : heap[b].copies = snap.heap[b].copies
       /\ Keys(libs[snap.lib].books) = Keys(snap.books)
       /\ DOMAIN heap = DOMAIN snap.heap

\* C6's case: "Du" was borrowed at 1 copy and then returned as "du"
C6_Witness ==
    /\ snap.stage = "returned"
    /\ call.op = "return_book"
    /\ call.ret = TRUE
    /\ snap.title = <<"D", "u">>
    /\ call.title = <<"d", "u">>
    /\ \E b \in EntriesTitled(heap, libs[call.lib].books, call.title) :
          heap[b].copies = 1

\* C7: across every call the borrow history before it is an initial part of
\* the history after it; it grows only in a borrow that returns True, and
\* then by one record; remove_book, add_book, a merge, return_book and
\* set_copies leave it as it was.
C7_HistoryAppendOnly ==
    [][ \A l \in LibIds :
           LET before == libs[l].borrow_history
               after == libs'[l].borrow_history
           IN  /\ IsPrefix(before, after)
               /\ after # before
                  => /\ call'.op = "borrow" /\ call'.ret = TRUE /\ call'.lib = l
                     /\ Len(after) = Len(before) + 1
      ]_vars

\* C7's case: "Du", borrowed earlier, was just removed as "du", and the
\* history still holds its record
C7_Witness ==
    /\ call.op = "remove_book"
    /\ call.ret = TRUE
    /\ call.title = <<"d", "u">>
    /\ libs[call.lib].books = <<>>
    /\ libs[call.lib].borrow_history = << << <<"D", "u">>, <<"H">>, 1965 >> >>

\* the normalized titles a log says are present: those of its "Added" lines
\* not followed by a "Removed" line of the same normalized title
RECURSIVE LoggedTitles(_)
LoggedTitles(log) ==
    IF log = <<>>
    THEN {}
    ELSE LET line == log[Len(log)]
             earlier == LoggedTitles(SubSeq(log, 1, Len(log) - 1))
         IN  IF Head(line) = "Added "
             THEN earlier \cup {Lower(Tail(line))}
             ELSE earlier \ {Lower(Tail(line))}

\* C8: after every call len(library) is the number of distinct normalized
\* titles added and not removed since, which is the number of distinct
\* lower-cased titles of the stored entries; and a call that adds a title
\* already present, a remove_book that returns False, a borrow or a
\* return_book leaves it as it was.
C8_LenCountsTitles ==
    [][ \A l \in ActiveLibs :
           /\ len(l)' = Cardinality(LoggedTitles(libs'[l].logs))
           /\ len(l)' = Cardinality({ Lower(heap'[b].title) :
                                        b \in StoredRefs(libs'[l].books) })
           /\ ( \/ call'.op \in {"borrow", "return_book"}
                \/ (call'.op = "remove_book" /\ call'.ret = FALSE)
                \/ /\ call'.op \in {"add_book", "add_book_full"}
                   /\ LET b == call'.ref
                          new == IF b \in Alive THEN heap[b] ELSE heap'[b]
                      IN  EntriesTitled(heap, libs[l].books, new.title) # {} )
              => len(l)' = len(l)
      ]_vars

\* C8's case: two titles of one key were added and a second key was added
\* and removed again: one title is left
C8_Witness ==
    /\ call.op = "remove_book"
    /\ call.ret = TRUE
    /\ Len(libs[call.lib].logs) = 3
    /\ len(call.lib) = 1

\* C9: remove_book(title) returns True exactly when a stored entry has that
\* normalized title; it then takes exactly that entry out of the dict, the
\* others keeping their order, and appends the one line "Removed <title>";
\* otherwise the library is unchanged.  No object and no history record is
\* changed either way.
C9_RemoveBook ==
    [][ \A l \in ActiveLibs, t \in TitlePool :
           (call'.op = "remove_book" /\ call'.lib = l /\ call'.title = t)
           => LET old == EntriesTitled(heap, libs[l].books, t)
              IN  /\ call'.ret = (old # {})
                  /\ heap' = heap
                  /\ old = {} => libs' = libs
                  /\ old # {}
                     => \E e \in old :
                           /\ old = {e}
                           /\ libs' = [libs EXCEPT
                                         ![l].books = Without(@, e),
                                         ![l].logs = Append(@, RemovedLine(t))]
      ]_vars

\* C9's case: "Du" was added, and just removed as "du" from a library that
\* keeps another entry
C9_Witness ==
    /\ call.op = "remove_book"
    /\ call.ret = TRUE
    /\ call.title = <<"d", "u">>
    /\ Len(libs[call.lib].logs) = 3
    /\ libs[call.lib].logs[1] = AddedLine(<<"D", "u">>)
    /\ libs[call.lib].logs[3] = RemovedLine(<<"d", "u">>)
    /\ Len(libs[call.lib].books) = 1

\* C10: return_book(title) returns False and changes nothing when no stored
\* entry has that normalized title; otherwise it returns True, adds 1 to that
\* entry's copies whatever the count was, and changes nothing else: no other
\* object, not the dict, the history or the log.
C10_ReturnBook ==
    [][ \A l \in ActiveLibs, t \in TitlePool :
           (call'.op = "return_book" /\ call'.lib = l /\ call'.title = t)
           => LET old == EntriesTitled(heap, libs[l].books, t)
              IN  /\ old = {}
                     => (call'.ret = FALSE /\ heap' = heap /\ libs' = libs)
                  /\ old # {}
                     => \E e \in old :
                           /\ call'.ret = TRUE
                           /\ heap' = [heap EXCEPT ![e].copies = heap[e].copies + 1]
                           /\ libs' = libs
      ]_vars

\* C10's case: "du" was just returned to a library whose "Du" had -1 copies
\* and no borrow on record
C10_Witness ==
    /\ call.op = "return_book"
    /\ call.ret = TRUE
    /\ call.title = <<"d", "u">>
    /\ libs[call.lib].borrow_history = <<>>
    /\ \E b \in EntriesTitled(heap, libs[call.lib].books, call.title) :
          heap[b].title = <<"D", "u">> /\ heap[b].copies = 0

\* C11: set_copies(count) with count < 0 fails with a ValueError and leaves the
\* entry, every other entry and every library as they were; with count >= 0 it
\* succeeds and the entry's copies is count, whatever it was before, and
\* nothing else changes.
C11_SetCopies ==
    [][ \A b \in Alive, c \in CountPool :
          (call'.op = "set_copies" /\ call'.ref = b /\ call'.count = c)
          => /\ libs' = libs
             /\ IF c < 0
                THEN call'.ret = "ValueError" /\ heap' = heap
                ELSE /\ call'.ret = None
                     /\ heap'[b].copies = c
                     /\ heap' = [heap EXCEPT ![b].copies = c] ]_vars

\* a negative count was refused for an entry the library stores with one copy
C11_Witness ==
    /\ call.op = "set_copies"
    /\ call.count < 0
    /\ call.ret = "ValueError"
    /\ call.ref \in StoredRefs(libs["main"].books)
    /\ heap[call.ref].copies = 1

\* the place of the object b in the insertion order of the books dict d
PlaceOf(d, b) == CHOOSE i \in DOMAIN d : d[i].ref = b

\* the strings s and t are equal but for upper and lower case
SameIgnoringCase(s, t) == Lower(s) = Lower(t)

\* the elements of a sequence
Range(s) == { s[i] : i \in DOMAIN s }

\* C12: search(author, title) changes no state and returns, in the insertion
\* order of the map, exactly the stored entries whose author equals the author
\* argument ignoring case (when one is given) and whose title equals the
\* title argument ignoring case (when one is given): every entry when neither
\* is given, and nothing from an empty library.
C12_Search ==
    [][ call'.op = "search"
          => LET l == call'.lib
                 a == call'.author
                 t == call'.title
                 d == libs[l].books
                 found == call'.ret
                 wanted == { b \in StoredRefs(d) :
                               /\ \A x \in a : SameIgnoringCase(heap[b].author, x)
                               /\ \A x \in t : SameIgnoringCase(heap[b].title, x) }
             IN  /\ heap' = heap
                 /\ libs' = libs
                 /\ Range(found) = wanted
                 /\ \A i, j \in DOMAIN found :
                       i < j => PlaceOf(d, found[i]) < PlaceOf(d, found[j])
                 /\ (a = {} /\ t = {}) => Len(found) = Len(d)
                 /\ d = <<>> => found = <<>> ]_vars

\* of two stored entries, a search for the author "H" found the one by "h"
\* and left out the one by "o"
C12_Witness ==
    /\ call.op = "search"
    /\ call.author = {<<"H">>}
    /\ call.title = {}
    /\ Len(libs[call.lib].books) = 2
    /\ Len(call.ret) = 1
    /\ heap[call.ret[1]].author = <<"h">>

\* C13: get_borrow_history() changes no state and returns the records of the
\* history in borrow order (a borrow that succeeds puts one record after those
\* already there), as a list of its own: when the caller appends to that list,
\* removes from it or reorders it, the history of the library stays as it was
\* and so does what get_borrow_history() returns from then on.
C13_HistoryCopy ==
    [][ \A l \in ActiveLibs :
          /\ (call'.op = "get_borrow_history" /\ call'.lib = l)
             => /\ heap' = heap
                /\ libs' = libs
                /\ call'.ret.items = libs[l].borrow_history
          /\ (call'.op = "borrow" /\ call'.lib = l /\ call'.ret)
             => /\ Len(get_borrow_history(l)'.items)
                     = Len(get_borrow_history(l).items) + 1
                /\ IsPrefix(get_borrow_history(l).items,
                            get_borrow_history(l)'.items)
          /\ (call'.op = "list" /\ call'.lib = l)
             => /\ heap' = heap
                /\ libs' = libs
                /\ get_borrow_history(l)'.items = get_borrow_history(l).items
                /\ call'.ret.items = Mutated(call'.kind, libs[l].borrow_history) ]_vars

\* the caller reversed the list of two records it got, and the history of the
\* library still has them in borrow order
C13_Witness ==
    /\ call.op = "list"
    /\ call.kind = "reverse"
    /\ Len(libs[call.lib].borrow_history) = 2
    /\ libs[call.lib].borrow_history[1] # libs[call.lib].borrow_history[2]
    /\ call.ret.items # libs[call.lib].borrow_history
    /\ get_borrow_history(call.lib).items = libs[call.lib].borrow_history

\* C14, as claimed: library[i] changes no state, returns the i-th entry of the
\* insertion order, counted from 0, when 0 <= i < len(library), and raises an
\* IndexError for every other integer i.
C14_IndexFromZero ==
    [][ call'.op = "getitem"
          => LET l == call'.lib
                 i == call'.index
             IN
             /\ heap' = heap
             /\ libs' = libs
             /\ IF 0 <= i /\ i < len(l)
                THEN /\ call'.raised = None
                     /\ call'.ret = libs[l].books[i + 1].ref
                ELSE /\ call'.raised = "IndexError"
                     /\ call'.ret = 0 ]_vars

\* C14, amended: library[i] changes no state; it returns the i-th entry of the
\* insertion order, counted from 0, when 0 <= i < len(library), the entry
\* len(library) + i of that order when -len(library) <= i < 0, and raises an
\* IndexError for every other integer i.
C14_IndexedAccess ==
    [][ call'.op = "getitem"
          => LET l == call'.lib
                 i == call'.index
             IN
             /\ heap' = heap
             /\ libs' = libs
             /\ IF 0 <= i /\ i < len(l)
                THEN /\ call'.raised = None
                     /\ call'.ret = libs[l].books[i + 1].ref
                ELSE IF -len(l) <= i /\ i < 0
                     THEN /\ call'.raised = None
                          /\ call'.ret = libs[l].books[len(l) + i + 1].ref
                     ELSE /\ call'.raised = "IndexError"
                          /\ call'.ret = 0 ]_vars

\* library[-1] gave the second of two entries
C14_Witness ==
    /\ call.op = "getitem"
    /\ call.index = -1
    /\ len(call.lib) = 2
    /\ call.raised = None
    /\ call.ret = libs[call.lib].books[2].ref
    /\ call.ret # libs[call.lib].books[1].ref

\* C15: find_by_title(title) and title in library raise nothing and change no
\* state; title in library is true exactly when find_by_title(title) returns
\* an entry, which is then a stored entry with that title but for case; and
\* that is exactly when remove_book(title) and return_book(title) find the
\* entry and return true, and the only case in which borrow(title) can.
C15_AbsenceIsAResult ==
    [][ call'.op \in {"contains", "find_by_title", "remove_book",
                      "return_book", "borrow"}
        => LET l == call'.lib
               t == call'.title
               titled == EntriesTitled(heap, libs[l].books, t)
           IN  /\ contains(l, t) <=> find_by_title(l, t) # 0
               /\ contains(l, t) <=> titled # {}
               /\ call'.op \in {"contains", "find_by_title"}
                  => /\ heap' = heap
                     /\ libs' = libs
                     /\ call'.raised = None
               /\ call'.op = "contains" => call'.ret = (titled # {})
               /\ call'.op = "find_by_title"
                  => IF titled = {} THEN call'.ret = 0 ELSE call'.ret \in titled
               /\ call'.op \in {"remove_book", "return_book"}
                  => call'.ret = contains(l, t)
               /\ call'.op = "borrow"
                  => call'.ret = (/\ contains(l, t)
                                  /\ heap[find_by_title(l, t)].copies > 0) ]_vars

\* "Du" in library was true of a library that stores the entry titled "du"
C15_Witness ==
    /\ call.op = "contains"
    /\ call.title = <<"D", "u">>
    /\ call.ret = TRUE
    /\ call.raised = None
    /\ find_by_title(call.lib, call.title) # 0
    /\ heap[find_by_title(call.lib, call.title)].title = <<"d", "u">>

\* the library that is not l
OtherLib(l) == CHOOSE o \in LibIds : o # l

\* C16: as long as no object was given to both libraries, a call of add_book,
\* add_book_full, remove_book, borrow, return_book or search on one library
\* leaves the other library's map, log and history and the fields (copies
\* among them) of every object given to the other as they were; and search
\* without filters, iteration and indexing on one library return only objects
\* given to it, none given to the other, len counting those.
C16_Isolation ==
    /\ [][ (/\ call'.op \in {"add_book", "add_book_full", "remove_book",
                              "borrow", "return_book", "search"}
             /\ given'["main"] \cap given'["branch"] = {})
            => LET o == OtherLib(call'.lib)
               IN  /\ libs'[o] = libs[o]
                   /\ \A b \in given[o] : heap'[b] = heap[b] ]_vars
    /\ [](given["main"] \cap given["branch"] = {}
           => \A l \in LibIds :
                LET indexed == { getitem(l, i).ret : i \in IndexPool } \ {0}
                    returned == Range(search(l, {}, {})) \cup Range(iter(l))
                                   \cup indexed
                IN  /\ returned \subseteq given[l]
                    /\ returned \cap given[OtherLib(l)] = {}
                    /\ len(l) = Cardinality(returned))

\* each library stores an object of its own under the key "du"; a borrow from
\* main took main's only copy and the branch still has its one
C16_Witness ==
    /\ call.op = "borrow"
    /\ call.lib = "main"
    /\ call.ret = TRUE
    /\ given["main"] \cap given["branch"] = {}
    /\ find_by_title("main", call.title) # 0
    /\ find_by_title("branch", call.title) # 0
    /\ find_by_title("main", call.title) # find_by_title("branch", call.title)
    /\ heap[find_by_title("main", call.title)].copies = 0
    /\ heap[find_by_title("branch", call.title)].copies = 1

\* C17: every key of the books map is the lower-cased title of the entry
\* stored under it, and no two stored entries have the same lower-cased title.
C17_KeysAreLowerTitles ==
    \A l \in ActiveLibs :
       LET d == libs[l].books
       IN  /\ \A i \in DOMAIN d : d[i].key = Lower(heap[d[i].ref].title)
           /\ \A i, j \in DOMAIN d :
                 i # j => Lower(heap[d[i].ref].title) # Lower(heap[d[j].ref].title)

\* two entries are stored, the one titled "Du" under the key "du"
C17_Witness ==
    /\ Len(libs["main"].books) = 2
    /\ \E i \in DOMAIN libs["main"].books :
          /\ heap[libs["main"].books[i].ref].title = <<"D", "u">>
          /\ libs["main"].books[i].key = <<"d", "u">>

\* C18: no call changes the title, the author or the year of any object, so
\* the hash of an object, taken from its lower-cased title, its author and its
\* year, is the same after a call as before it, whatever happens to its copies.
C18_IdentityIsFixed ==
    [][ \A b \in Alive :
          /\ heap'[b].title = heap[b].title
          /\ heap'[b].author = heap[b].author
          /\ heap'[b].year = heap[b].year
          /\ hash(heap', b) = hash(heap, b) ]_vars

\* set_copies(0) took the one copy of a stored entry, whose hash is what it was
C18_Witness ==
    /\ call.op = "set_copies"
    /\ call.count = 0
    /\ call.ret = None
    /\ call.ref \in StoredRefs(libs["main"].books)
    /\ ledger["main"][Lower(heap[call.ref].title)].sum = 1
    /\ heap[call.ref].copies = 0
    /\ hash(heap, call.ref) = <<<<"d", "u">>, <<"H">>, 1965>>

\* the sequence s without the element e
Less(s, e) == SelectSeq(s, LAMBDA x : x # e)

\* C19: get_all_books(), search() without filters, an iteration and indexed
\* access for i = 0..len-1 give the same sequence, which holds every stored
\* entry once; that sequence is in the order of insertion: an add of a title
\* that has no entry puts the new entry last (so an entry removed and added
\* again is last), a merge, a borrow and a return leave the sequence as it is,
\* a removal takes one entry out and leaves the others in their order; and an
\* iteration right after an iteration yields what that one did.
C19_EnumerationOrder ==
    /\ [](\A l \in ActiveLibs :
            /\ search(l, {}, {}) = get_all_books(l)
            /\ iter(l) = get_all_books(l)
            /\ Len(get_all_books(l)) = len(l)
            /\ \A i \in 0 .. len(l) - 1 :
                  /\ getitem(l, i).raised = None
                  /\ getitem(l, i).ret = get_all_books(l)[i + 1]
            /\ Range(get_all_books(l)) = StoredRefs(libs[l].books)
            /\ Cardinality(StoredRefs(libs[l].books)) = len(l))
    /\ [][ \A l \in ActiveLibs :
             LET before == get_all_books(l)
                 after == get_all_books(l)'
             IN  /\ (call'.op = "add_book_full" /\ call'.lib = l)
                    => IF EntriesTitled(heap, libs[l].books,
                                        heap'[call'.ref].title) = {}
                       THEN after = Append(before, call'.ref)
                       ELSE after = before
                 /\ (call'.op \in {"borrow", "return_book"} /\ call'.lib = l)
                    => after = before
                 /\ (call'.op = "remove_book" /\ call'.lib = l)
                    => \/ ~call'.ret /\ after = before
                       \/ /\ call'.ret
                          /\ Len(after) = Len(before) - 1
                          /\ \E e \in Range(before) : after = Less(before, e)
                 /\ (call'.op \in QueryOps /\ call'.lib = l)
                    => after = before
                 /\ (call'.op \in {"get_all_books", "iter"} /\ call'.lib = l)
                    => call'.ret = before
                 /\ (call'.op = "iter" /\ call'.lib = l)
                    => \A s \in call'.before : call'.ret = s ]_vars

\* "Du" was added, then "Z9", then "du" was removed and added again: the
\* enumeration has the entry of "Z9" first and the new entry last
C19_Witness ==
    /\ call.op = "add_book_full"
    /\ Len(libs[call.lib].logs) = 4
    /\ libs[call.lib].logs[1] = AddedLine(<<"D", "u">>)
    /\ libs[call.lib].logs[2] = AddedLine(<<"Z", "9">>)
    /\ libs[call.lib].logs[3] = RemovedLine(<<"d", "u">>)
    /\ libs[call.lib].logs[4] = AddedLine(<<"d", "u">>)
    /\ Len(get_all_books(call.lib)) = 2
    /\ heap[get_all_books(call.lib)[1]].title = <<"Z", "9">>
    /\ get_all_books(call.lib)[2] = call.ref

C21_EqualMeansSameHash ==
    \A a, b \in Alive :
       (heap[a].copies >= 0 /\ heap[b].copies >= 0 /\ eq(heap, a, b))
       => hash(heap, a) = hash(heap, b)

====
